---- MODULE Spec2Model ----
(***************************************************************************)
(* nextraw: conversion of an uncompressed 8-bit BMP file to a raw image    *)
(* file for ZX Spectrum Next (src/src/nextraw.c).                          *)
(*                                                                         *)
(* One run of main() is modelled as a state machine over the program's     *)
(* static buffers (header, palette, raw_palette, image, raw_image), the    *)
(* locals of main() and the three files involved.  Files are sequences of  *)
(* bytes; buffers are sequences indexed from 1, so C index i is i + 1.     *)
(***************************************************************************)
EXTENDS Integers, Sequences, FiniteSets, TLC

VARIABLES
    in_file,            \* bytes of the source BMP file
    args,               \* arguments_t: palette_option, use_4bit, column_layout
    pc,                 \* position of main()
    err,                \* diagnosis of the failed step ("" while none)
    header,             \* static uint8_t header[HEADER_SIZE]
    palette,            \* static uint8_t palette[PALETTE_SIZE]
    raw_palette,        \* static uint8_t raw_palette[RAW_PALETTE_SIZE]
    image,              \* static uint8_t *image      (NULL or a buffer)
    raw_image,          \* static uint8_t *raw_image  (NULL or a buffer)
    palette_offset,     \* locals of main()
    image_offset,
    image_width,
    image_height,
    bottom_to_top_image,
    padded_image_width,
    image_size,
    raw_image_width,
    raw_image_size,
    stores,             \* number of byte stores the conversion loops made
    out_file,           \* raw image file: NoFile or its bytes
    palette_file        \* raw palette file: NoFile or its bytes

vars == <<in_file, args, pc, err, header, palette, raw_palette, image,
          raw_image, palette_offset, image_offset, image_width, image_height,
          bottom_to_top_image, padded_image_width, image_size,
          raw_image_width, raw_image_size, stores, out_file, palette_file>>

geometry == <<bottom_to_top_image, padded_image_width, image_size>>
raw_geometry == <<raw_image_width, raw_image_size>>
header_outs == <<palette_offset, image_offset, image_width, image_height>>
files == <<out_file, palette_file>>

(***************************************************************************)
(* Program constants.                                                      *)
(***************************************************************************)
FILE_HEADER_SIZE == 14
MIN_DIB_HEADER_SIZE == 40
HEADER_SIZE == 54
PALETTE_SIZE == 1024
RAW_PALETTE_SIZE == 512
RAW_4BIT_PALETTE_SIZE == 32
MIN_BMP_FILE_SIZE == 1082

EMBEDDED == "EMBEDDED"
SEPARATE == "SEPARATE"
NONE == "NONE"

NULL == "NULL"
NoFile == "NoFile"
\* Content of a malloc'ed byte that was never stored to.
Uninit == -1

(***************************************************************************)
(* Machine integers.  TLC's integers are 32-bit signed, so a C integer is  *)
(* held as a pair <<hi, lo>> of value hi * 65536 + lo with lo in           *)
(* 0 .. 65535: a uint32_t has hi in 0 .. 65535, a pointer offset any hi.   *)
(* int quantities that stay below 2^31 in magnitude (image_height, the     *)
(* loop counters) are plain integers.                                      *)
(***************************************************************************)
Limb == 65536

Norm(hi, lo) == <<hi + (lo \div Limb), lo % Limb>>
FromInt(n) == Norm(0, n)
ToInt(a) == a[1] * Limb + a[2]
Zero == <<0, 0>>

Add(a, b) == Norm(a[1] + b[1], a[2] + b[2])
Sub(a, b) == Norm(a[1] - b[1], a[2] - b[2])
Lt(a, b) == a[1] < b[1] \/ (a[1] = b[1] /\ a[2] < b[2])
Geq(a, b) == ~Lt(a, b)

\* Conversion to uint32_t: the value modulo 2^32.
U32(a) == <<a[1] % Limb, a[2]>>

\* The product of two 16-bit limbs, by bytes.
MulLimb(x, y) ==
    LET t0 == (x % 256) * (y % 256)
        t1 == (x \div 256) * (y % 256) + (x % 256) * (y \div 256)
        t2 == (x \div 256) * (y \div 256)
        low == t0 + 256 * (t1 % 256)
    IN  <<t2 + (t1 \div 256) + (low \div Limb), low % Limb>>

\* uint32_t multiplication: the product modulo 2^32.
MulU32(a, b) ==
    LET p0 == MulLimb(a[2], b[2])
        cross == MulLimb(a[1], b[2])[2] + MulLimb(a[2], b[1])[2]
    IN  <<(p0[1] + cross) % Limb, p0[2]>>

\* a / 2 of a uint32_t.
Half(a) == <<a[1] \div 2, (a[2] \div 2) + (a[1] % 2) * 32768>>

\* abs() of a 32-bit int.  abs(INT_MIN) is undefined; the inputs of the
\* model keep the height field above INT_MIN.
abs(x) == IF x < 0 THEN -x ELSE x

Zeros(n) == [i \in 1..n |-> 0]

(***************************************************************************)
(* Little-endian field reads of is_valid_bmp_file (the uint32_t, int32_t   *)
(* and uint16_t loads at header + off), as on the little-endian targets    *)
(* the tool is built for.                                                  *)
(***************************************************************************)
RdU16(buf, off) == buf[off + 1] + 256 * buf[off + 2]

RdU32(buf, off) == <<RdU16(buf, off + 2), RdU16(buf, off)>>

RdS32(buf, off) ==
    LET u == RdU32(buf, off)
    IN  IF u[1] >= 32768 THEN ToInt(<<u[1] - Limb, u[2]>>) ELSE ToInt(u)

(***************************************************************************)
(* is_valid_bmp_file: the checks in source order.  The result carries the  *)
(* diagnosis and the out-parameters as far as they were stored; an         *)
(* out-parameter not reached keeps its old value.                          *)
(***************************************************************************)
\* Variant: a file of exactly the minimum size is refused too.
FileSizeTooSmall_inclusive(file_size) ==
    ~Lt(FromInt(MIN_BMP_FILE_SIZE), file_size)

FileSizeTooSmall(file_size) == Lt(file_size, FromInt(MIN_BMP_FILE_SIZE))

\* *image_width * abs(*image_height) >= file_size, in uint32_t.
ImageTooLarge(w, h, file_size) ==
    Geq(MulU32(w, U32(FromInt(abs(h)))), file_size)

is_valid_bmp_file(hd, old) ==
    LET file_size == RdU32(hd, 2)
        off == RdU32(hd, 10)
        dib_header_size == RdU32(hd, 14)
        w == RdU32(hd, 18)
        h == RdS32(hd, 22)
        bpp == RdU16(hd, 28)
        compression == RdU32(hd, 30)
        r0 == [ok |-> FALSE, err |-> "", palette_offset |-> old[1],
               image_offset |-> old[2], image_width |-> old[3],
               image_height |-> old[4]]
        r1 == [r0 EXCEPT !.image_offset = off]
        r2 == [r1 EXCEPT !.palette_offset =
                            U32(Add(FromInt(FILE_HEADER_SIZE), dib_header_size))]
        r3 == [r2 EXCEPT !.image_width = w]
        r4 == [r3 EXCEPT !.image_height = h]
    IN  IF hd[1] # 66 \/ hd[2] # 77
            THEN [r0 EXCEPT !.err = "NotABmpFile"]
        ELSE IF FileSizeTooSmall(file_size)
            THEN [r0 EXCEPT !.err = "FileTooSmall"]
        ELSE IF Geq(off, file_size)
            THEN [r1 EXCEPT !.err = "InvalidHeader"]
        ELSE IF Lt(dib_header_size, FromInt(MIN_DIB_HEADER_SIZE))
            THEN [r1 EXCEPT !.err = "UnsupportedHeader"]
        ELSE IF w = Zero
            THEN [r3 EXCEPT !.err = "InvalidWidth"]
        ELSE IF h = 0
            THEN [r4 EXCEPT !.err = "InvalidHeight"]
        ELSE IF ImageTooLarge(w, h, file_size)
            THEN [r4 EXCEPT !.err = "InvalidImageSize"]
        ELSE IF bpp # 8
            THEN [r4 EXCEPT !.err = "UnsupportedBitDepth"]
        ELSE IF compression # Zero
            THEN [r4 EXCEPT !.err = "UnsupportedCompression"]
        ELSE [r4 EXCEPT !.ok = TRUE]

(***************************************************************************)
(* c8_to_c3: (uint8_t) round((c8 * 7.0) / 255.0).  round() rounds to the   *)
(* nearest integer, halfway cases away from zero; with q and r the         *)
(* quotient and remainder of c8 * 7 by 255 the fraction is r / 255, so the *)
(* result is q + 1 when 2 * r >= 255 and q otherwise.                      *)
(***************************************************************************)
\* Variant: the quotient truncated instead of rounded.
c8_to_c3_truncating(c8) == (c8 * 7) \div 255

c8_to_c3(c8) ==
    LET q == (c8 * 7) \div 255
        r == (c8 * 7) % 255
    IN  IF 2 * r >= 255 THEN q + 1 ELSE q

\* (r3 << 6) | (g3 << 3) | (b3 << 0) on 3-bit channels: the fields are
\* disjoint, so the bitwise or is the sum.
Rgb333(r3, g3, b3) == r3 * 64 + g3 * 8 + b3

NumPaletteColors(use_4bit) == IF use_4bit THEN 16 ELSE 256

\* The two bytes create_raw_palette stores for palette entry i of pal.
RawPaletteEntry(pal, i) ==
    LET r8 == pal[i * 4 + 2 + 1]
        g8 == pal[i * 4 + 1 + 1]
        b8 == pal[i * 4 + 0 + 1]
        rgb333 == Rgb333(c8_to_c3(r8), c8_to_c3(g8), c8_to_c3(b8))
    IN  <<(rgb333 \div 2) % 256, rgb333 % 2>>

\* create_raw_palette: entries 0 .. num_palette_colors - 1 of raw are
\* overwritten, the rest of the static buffer is left as it was.
create_raw_palette(pal, raw, num_palette_colors) ==
    [k \in 1..Len(raw) |->
        LET i == (k - 1) \div 2
        IN  IF i < num_palette_colors
                THEN RawPaletteEntry(pal, i)[((k - 1) % 2) + 1]
                ELSE raw[k]]

\* Variant: the 8-bit palette size in both modes.
RawPaletteSize_full(use_4bit) == RAW_PALETTE_SIZE

RawPaletteSize(use_4bit) ==
    IF use_4bit THEN RAW_4BIT_PALETTE_SIZE ELSE RAW_PALETTE_SIZE

(***************************************************************************)
(* Geometry computed by main() before the buffers are allocated.           *)
(***************************************************************************)
\* Variant: the sign test of the row order inverted.
BottomToTop_inverted(h) == h < 0

\* bottom_to_top_image = (image_height > 0)
BottomToTop(h) == h > 0

\* (image_width + 3) & ~0x03 in uint32_t arithmetic.
PaddedWidth(w) ==
    LET a == U32(Add(w, FromInt(3))) IN <<a[1], a[2] - (a[2] % 4)>>

\* image_height = bottom_to_top_image ? image_height : -image_height
AbsHeight(h) == IF h > 0 THEN h ELSE -h

ImageSize(padded, h) == MulU32(padded, U32(FromInt(h)))

RawImageWidth(use_4bit, w) ==
    IF use_4bit THEN Half(U32(Add(w, FromInt(w[2] % 2)))) ELSE w

RawImageSize(rw, h) == MulU32(rw, U32(FromInt(h)))

\* image_ptr after "image_ptr += image_size - padded_image_width", as an
\* offset from image; the difference is computed in uint32_t.
StartPtr(b2t, isize, padded) == IF b2t THEN U32(Sub(isize, padded)) ELSE Zero

\* image_ptr after one row.
NextPtr(b2t, ptr, padded) ==
    IF b2t THEN Sub(ptr, padded) ELSE Add(ptr, padded)

(***************************************************************************)
(* The four conversion loops.  The loop state is a record: raw (the raw    *)
(* image buffer), ptr (image_ptr as an offset from image), n (the number   *)
(* of byte stores made) and oob (an access outside a buffer happened; the  *)
(* loop stops there, what follows in the program is undefined) and rptr    *)
(* (raw_image_ptr of the 8-bit row loop).                                  *)
(* g is the geometry: w, h, padded, isize, rw, rsize, b2t.                 *)
(***************************************************************************)
InBuf(i, size) == i[1] >= 0 /\ Lt(i, size)

\* Variant: the two nibbles exchanged.
NibblePair_swapped(left, right) == (right % 16) * 16 + (left % 16)

\* (left & 0x0F) << 4 | (right & 0x0F) as uint8_t.
NibblePair(left, right) == (left % 16) * 16 + (right % 16)

\* Variant: the row, not the column, scaled by the height.
ColIndex8_transposed(y, x, h) ==
    Add(FromInt(x), MulU32(FromInt(y), FromInt(h)))

\* The index expressions of the three indexed stores.
ColIndex8(y, x, h) == Add(FromInt(y), MulU32(FromInt(x), FromInt(h)))
ColIndex4(y, x, h) == Add(FromInt(y), MulU32(FromInt(x \div 2), FromInt(h)))
RowIndex4(y, x, rw) == U32(Add(MulU32(FromInt(y), rw), FromInt(x \div 2)))

\* image_ptr[x]
At(img, ptr, x) == img[ToInt(Add(ptr, FromInt(x))) + 1]

RECURSIVE Pairs(_, _, _, _, _, _)
\* for (x = ...; x < image_width; x += 2) of the two 4-bit loops, row y.
Pairs(img, g, st, y, x, col) ==
    IF st.oob \/ ~Lt(FromInt(x), g.w) THEN st
    ELSE LET dst == IF col THEN ColIndex4(y, x, g.h) ELSE RowIndex4(y, x, g.rw)
         IN  IF ~(InBuf(Add(st.ptr, FromInt(x)), g.isize)
                    /\ InBuf(Add(st.ptr, FromInt(x + 1)), g.isize)
                    /\ InBuf(dst, g.rsize))
                 THEN [st EXCEPT !.oob = TRUE]
                 ELSE Pairs(img, g,
                        [st EXCEPT
                            !.raw = ((ToInt(dst) + 1) :>
                                NibblePair(At(img, st.ptr, x),
                                           At(img, st.ptr, x + 1))) @@ @,
                            !.n = @ + 1],
                        y, x + 2, col)

RECURSIVE Column8(_, _, _, _, _)
\* for (x = ...; x < image_width; x++) of the 8-bit column loop, row y.
Column8(img, g, st, y, x) ==
    IF st.oob \/ ~Lt(FromInt(x), g.w) THEN st
    ELSE LET dst == ColIndex8(y, x, g.h)
         IN  IF ~(InBuf(Add(st.ptr, FromInt(x)), g.isize) /\ InBuf(dst, g.rsize))
                 THEN [st EXCEPT !.oob = TRUE]
                 ELSE Column8(img, g,
                        [st EXCEPT
                            !.raw = ((ToInt(dst) + 1) :> At(img, st.ptr, x)) @@ @,
                            !.n = @ + 1],
                        y, x + 1)

\* memcpy(raw_image_ptr, image_ptr, image_width); raw_image_ptr += image_width
\* of the 8-bit row loop.
Memcpy8(img, g, st) ==
    LET last == Sub(g.w, FromInt(1))
    IN  IF ~(InBuf(st.ptr, g.isize) /\ InBuf(Add(st.ptr, last), g.isize)
               /\ InBuf(st.rptr, g.rsize) /\ InBuf(Add(st.rptr, last), g.rsize))
            THEN [st EXCEPT !.oob = TRUE]
            ELSE [st EXCEPT
                    !.raw = [k \in (ToInt(st.rptr) + 1)..(ToInt(st.rptr) + ToInt(g.w))
                                |-> At(img, st.ptr, k - ToInt(st.rptr) - 1)] @@ @,
                    !.n = @ + ToInt(g.w),
                    !.rptr = Add(@, g.w)]

RECURSIVE Rows(_, _, _, _, _, _)
\* for (y = ...; y < image_height; y++) of each of the four loops.
Rows(img, g, st, y, use_4bit, col) ==
    IF st.oob \/ ~(y < g.h) THEN st
    ELSE LET body == IF use_4bit THEN Pairs(img, g, st, y, 0, col)
                     ELSE IF col THEN Column8(img, g, st, y, 0)
                     ELSE Memcpy8(img, g, st)
         IN  IF body.oob THEN body
             ELSE Rows(img, g,
                       [body EXCEPT !.ptr = NextPtr(g.b2t, @, g.padded)],
                       y + 1, use_4bit, col)

\* The conversion of main(), lines 445-517, from the image buffer img into
\* the freshly allocated raw buffer; raw collects the bytes stored so far.
Convert(img, g, use_4bit, col) ==
    Rows(img, g,
         [raw |-> <<>>, ptr |-> StartPtr(g.b2t, g.isize, g.padded),
          rptr |-> Zero, n |-> 0, oob |-> FALSE],
         0, use_4bit, col)

\* The raw image buffer after the loops: the bytes stored, and Uninit where
\* the loops stored nothing.
Materialize(stored, size) ==
    [k \in 1..ToInt(size) |-> IF k \in DOMAIN stored THEN stored[k] ELSE Uninit]

(***************************************************************************)
(* Source files the runs start from.                                       *)
(***************************************************************************)
MaxW == 5
MaxH == 3

LE16(v) == <<v % 256, (v \div 256) % 256>>
LE32(v) == LE16(v[2]) \o LE16(v[1])

\* The 54 header bytes of a BMP file: signature, file size, reserved, pixel
\* offset, DIB header size, width, height, planes, bits per pixel,
\* compression, and the rest of a BITMAPINFOHEADER.
MkHeader(sig, fs, off, dib, w, h, bpp, comp) ==
    sig \o LE32(fs) \o Zeros(4) \o LE32(off) \o LE32(dib) \o LE32(w)
        \o LE32(U32(FromInt(h))) \o LE16(1) \o LE16(bpp) \o LE32(comp)
        \o Zeros(20)

\* A 256-entry BGRA colour table.  Over the 16 seeds 0, 16 .. 240 the first
\* 16 entries take every value 0 .. 255 in each of the three channels;
\* entry 0 under seed 0 is RGB888 (255, 128, 0).
PaletteSeeds == {16 * s : s \in 0..15}
PaletteBytes(seed) ==
    [k \in 1..PALETTE_SIZE |->
        LET i == (k - 1) \div 4
            c == (k - 1) % 4
        IN  CASE c = 0 -> (i + seed) % 256
              [] c = 1 -> (128 + 16 * i + (seed \div 16)) % 256
              [] c = 2 -> (767 - i - seed) % 256
              [] OTHER -> 170]

\* Row-padded pixel data of h stored rows: distinct index values in the
\* first w columns of each row, the byte pad in the padding columns.
PixelSeeds == {0, 129}
PadFills == {0, 175}
PixelBytes(w, h, seed, pad) ==
    LET padded == ToInt(PaddedWidth(FromInt(w)))
    IN  [k \in 1..(padded * h) |->
            IF (k - 1) % padded < w THEN (seed + 37 * (k - 1)) % 256 ELSE pad]

\* A well-formed file: BITMAPINFOHEADER, colour table at 54, pixels at 1078.
\* hfield is the height field (negative: rows stored top to bottom).
ImageFile(w, hfield, seed, pad, palseed) ==
    LET pix == PixelBytes(w, abs(hfield), seed, pad)
    IN  MkHeader(<<66, 77>>, FromInt(1078 + Len(pix)), FromInt(1078),
                 FromInt(40), FromInt(w), hfield, 8, Zero)
            \o PaletteBytes(palseed) \o pix

\* Header fields around the limits the validator and the 32-bit sizes of
\* main() test.
HdrSignatures == {<<66, 77>>, <<88, 77>>, <<66, 88>>}
UINT32_MAX == <<65535, 65535>>
HdrFileSizes == {FromInt(1081), FromInt(1082), UINT32_MAX}
HdrOffsets == {FromInt(1078), FromInt(1082), UINT32_MAX}
HdrDibSizes == {FromInt(39), FromInt(40), FromInt(124)}
HdrWidths == {Zero, FromInt(1), FromInt(3), FromInt(65536), <<65535, 65534>>}
HdrHeights == {0, 1, -2, 1081, 65536, -2147483647}
HdrBpps == {8, 24}
HdrCompressions == {Zero, FromInt(1)}

AllArgs ==
    [palette_option : {EMBEDDED, SEPARATE, NONE}, use_4bit : BOOLEAN,
     column_layout : BOOLEAN]

InitRest ==
    /\ pc = "open_in"
    /\ err = ""
    /\ header = Zeros(HEADER_SIZE)
    /\ palette = Zeros(PALETTE_SIZE)
    /\ raw_palette = Zeros(RAW_PALETTE_SIZE)
    /\ image = NULL
    /\ raw_image = NULL
    /\ palette_offset = Zero
    /\ image_offset = Zero
    /\ image_width = Zero
    /\ image_height = 0
    /\ bottom_to_top_image = FALSE
    /\ padded_image_width = Zero
    /\ image_size = Zero
    /\ raw_image_width = Zero
    /\ raw_image_size = Zero
    /\ stores = 0
    /\ out_file = NoFile
    /\ palette_file = NoFile

\* Small pictures of every width and height, in both row orders.
InitImages ==
    /\ \E w \in 1..MaxW, h \in 1..MaxH, sign \in {1, -1},
          seed \in PixelSeeds, pad \in PadFills :
            in_file = ImageFile(w, sign * h, seed, pad, 0)
    /\ args \in AllArgs

\* One picture under every colour table.
InitPalettes ==
    /\ \E palseed \in PaletteSeeds : in_file = ImageFile(1, 1, 0, 0, palseed)
    /\ args \in [palette_option : {EMBEDDED, SEPARATE}, use_4bit : BOOLEAN,
                 column_layout : {FALSE}]

\* Files that end with their header, under every combination of field
\* values, and one that ends a byte short of it.
InitHeaders ==
    /\ \E sig \in HdrSignatures, fs \in HdrFileSizes, off \in HdrOffsets,
          dib \in HdrDibSizes, w \in HdrWidths, h \in HdrHeights,
          bpp \in HdrBpps, comp \in HdrCompressions :
            LET hd == MkHeader(sig, fs, off, dib, w, h, bpp, comp)
            IN  \/ in_file = hd
                \/ /\ sig = <<66, 77>> /\ fs = FromInt(1082)
                   /\ off = FromInt(1078) /\ dib = FromInt(40)
                   /\ w = FromInt(1) /\ h = 1 /\ bpp = 8 /\ comp = Zero
                   /\ in_file = SubSeq(hd, 1, HEADER_SIZE - 1)
    /\ args \in [palette_option : {NONE}, use_4bit : BOOLEAN,
                 column_layout : BOOLEAN]

Init == InitRest /\ (InitImages \/ InitPalettes \/ InitHeaders)

(***************************************************************************)
(* The steps of main().                                                    *)
(***************************************************************************)
\* A buffer malloc returned and nothing has been stored to yet.
Fresh == "Fresh"

\* exit_with_msg: the message e, then exit(EXIT_FAILURE); the streams
\* still open are flushed and closed, exit_handler runs next.
Fail(e) ==
    /\ pc' = "error"
    /\ err' = e
    /\ UNCHANGED <<image, raw_image>>

\* The number of bytes fread gets for a request of n bytes at position pos
\* (a position past the end of the file is one fseek accepts).
Available(pos, n) ==
    IF Geq(pos, FromInt(Len(in_file))) THEN 0
    ELSE LET rest == Len(in_file) - ToInt(pos)
         IN  IF Lt(n, FromInt(rest)) THEN ToInt(n) ELSE rest

\* The bytes of in_file at offsets pos .. pos + n - 1.
FileBytes(pos, n) == SubSeq(in_file, ToInt(pos) + 1, ToInt(pos) + n)

\* Counts a failing fwrite of n bytes may have written.
ShortCounts(n) == {k \in {0, n \div 2} : k < n}

\* fopen(args.in_filename, "rb")
OpenInFile ==
    /\ pc = "open_in"
    /\ \/ /\ pc' = "read_header"
          /\ UNCHANGED <<err, image, raw_image>>
       \/ Fail("CantOpenInput")
    /\ UNCHANGED <<in_file, args, header, palette, raw_palette,
                   header_outs, geometry, raw_geometry, stores, files>>

\* fread(header, 1, sizeof(header), in_file)
ReadHeader ==
    /\ pc = "read_header"
    /\ \E io_ok \in BOOLEAN :
        LET got == IF io_ok THEN Available(Zero, FromInt(HEADER_SIZE)) ELSE 0
        IN  /\ header' = (IF got = 0 THEN <<>> ELSE FileBytes(Zero, got))
                            \o SubSeq(header, got + 1, HEADER_SIZE)
            /\ IF got = HEADER_SIZE
                   THEN pc' = "validate" /\ UNCHANGED <<err, image, raw_image>>
                   ELSE Fail("TruncatedHeader")
    /\ UNCHANGED <<in_file, args, palette, raw_palette, header_outs,
                   geometry, raw_geometry, stores, files>>

\* is_valid_bmp_file(&palette_offset, &image_offset, &image_width, &image_height)
ValidateHeader ==
    /\ pc = "validate"
    /\ LET r == is_valid_bmp_file(header, header_outs)
       IN  /\ palette_offset' = r.palette_offset
           /\ image_offset' = r.image_offset
           /\ image_width' = r.image_width
           /\ image_height' = r.image_height
           /\ IF r.ok
                  THEN pc' = "alloc_image" /\ UNCHANGED <<err, image, raw_image>>
                  ELSE Fail(r.err)
    /\ UNCHANGED <<in_file, args, header, palette, raw_palette,
                   geometry, raw_geometry, stores, files>>

\* Lines 374-384: the padded width, the image size, malloc(image_size).
AllocImage ==
    /\ pc = "alloc_image"
    /\ bottom_to_top_image' = BottomToTop(image_height)
    /\ padded_image_width' = PaddedWidth(image_width)
    /\ image_height' = AbsHeight(image_height)
    /\ image_size' = ImageSize(padded_image_width', image_height')
    /\ \/ /\ image' = Fresh
          /\ pc' = "read_palette"
          /\ UNCHANGED <<err, raw_image>>
       \/ Fail("ImageAllocError")
    /\ UNCHANGED <<in_file, args, header, palette, raw_palette,
                   palette_offset, image_offset, image_width, raw_geometry,
                   stores, files>>

\* Lines 387-397: fseek to the palette and fread of PALETTE_SIZE bytes,
\* unless no palette is wanted.
ReadPalette ==
    /\ pc = "read_palette"
    /\ IF args.palette_option = NONE
           THEN /\ pc' = "read_image"
                /\ UNCHANGED <<palette, err, image, raw_image>>
           ELSE \E seek_ok \in BOOLEAN, io_ok \in BOOLEAN :
                LET got == IF seek_ok /\ io_ok
                               THEN Available(palette_offset, FromInt(PALETTE_SIZE))
                               ELSE 0
                IN  /\ palette' = (IF got = 0 THEN <<>>
                                   ELSE FileBytes(palette_offset, got))
                                    \o SubSeq(palette, got + 1, PALETTE_SIZE)
                    /\ IF got = PALETTE_SIZE
                           THEN /\ pc' = "read_image"
                                /\ UNCHANGED <<err, image, raw_image>>
                           ELSE Fail("PaletteReadError")
    /\ UNCHANGED <<in_file, args, header, raw_palette, header_outs, geometry,
                   raw_geometry, stores, files>>

\* Lines 398-406: fseek to the pixel data, fread of image_size bytes, fclose.
ReadImage ==
    /\ pc = "read_image"
    /\ \E seek_ok \in BOOLEAN, io_ok \in BOOLEAN :
        LET got == IF seek_ok /\ io_ok
                       THEN Available(image_offset, image_size)
                       ELSE 0
        IN  IF seek_ok /\ FromInt(got) = image_size
                   THEN /\ image' = (IF got = 0 THEN <<>>
                                     ELSE FileBytes(image_offset, got))
                        /\ pc' = "create_palette"
                        /\ UNCHANGED <<err, raw_image>>
                   ELSE Fail("ImageReadError")
    /\ UNCHANGED <<in_file, args, header, palette, raw_palette, header_outs,
                   geometry, raw_geometry, stores, files>>

\* Lines 408-413: create_raw_palette(16 or 256), unless no palette is wanted.
CreateRawPalette ==
    /\ pc = "create_palette"
    /\ raw_palette' =
            IF args.palette_option # NONE
                THEN create_raw_palette(palette, raw_palette,
                                        NumPaletteColors(args.use_4bit))
                ELSE raw_palette
    /\ pc' = "open_out"
    /\ UNCHANGED <<in_file, args, err, header, palette, image,
                   raw_image, header_outs, geometry, raw_geometry, stores,
                   files>>

\* fopen(out_filename, "wb")
OpenOutFile ==
    /\ pc = "open_out"
    /\ \/ /\ out_file' = <<>>
          /\ pc' = "write_palette"
          /\ UNCHANGED <<err, image, raw_image>>
       \/ /\ Fail("CantCreateOutput")
          /\ UNCHANGED out_file
    /\ UNCHANGED <<in_file, args, header, palette, raw_palette,
                   header_outs, geometry, raw_geometry, stores, palette_file>>

\* Lines 422-443: the raw palette goes to the head of the raw image file,
\* to a file of its own, or nowhere.
WritePalette ==
    /\ pc = "write_palette"
    /\ LET n == RawPaletteSize(args.use_4bit)
       IN  CASE args.palette_option = EMBEDDED ->
                    /\ \/ /\ out_file' = out_file \o SubSeq(raw_palette, 1, n)
                          /\ pc' = "alloc_raw"
                          /\ UNCHANGED <<err, image, raw_image>>
                       \/ \E k \in ShortCounts(n) :
                            /\ out_file' = out_file \o SubSeq(raw_palette, 1, k)
                            /\ Fail("PaletteWriteError")
                    /\ UNCHANGED palette_file
             [] args.palette_option = SEPARATE ->
                    /\ \/ /\ palette_file' = SubSeq(raw_palette, 1, n)
                          /\ pc' = "alloc_raw"
                          /\ UNCHANGED <<err, image, raw_image>>
                       \/ /\ UNCHANGED palette_file
                          /\ Fail("CantCreatePalette")
                       \/ \E k \in ShortCounts(n) :
                            /\ palette_file' = SubSeq(raw_palette, 1, k)
                            /\ Fail("PaletteWriteError")
                    /\ UNCHANGED out_file
             [] OTHER ->
                    /\ pc' = "alloc_raw"
                    /\ UNCHANGED <<err, image, raw_image, files>>
    /\ UNCHANGED <<in_file, args, header, palette, raw_palette,
                   header_outs, geometry, raw_geometry, stores>>

\* Lines 451-458: the raw row width, the raw size, malloc(raw_image_size).
AllocRawImage ==
    /\ pc = "alloc_raw"
    /\ raw_image_width' = RawImageWidth(args.use_4bit, image_width)
    /\ raw_image_size' = RawImageSize(raw_image_width', image_height)
    /\ \/ /\ raw_image' = Fresh
          /\ pc' = "convert"
          /\ UNCHANGED <<err, image>>
       \/ Fail("RawAllocError")
    /\ UNCHANGED <<in_file, args, header, palette, raw_palette,
                   header_outs, geometry, stores, files>>

Geometry ==
    [w |-> image_width, h |-> image_height, padded |-> padded_image_width,
     isize |-> image_size, rw |-> raw_image_width, rsize |-> raw_image_size,
     b2t |-> bottom_to_top_image]

\* Lines 445-449 and 460-517: the conversion.  An access outside image or
\* raw_image is undefined behaviour: the run leaves the defined program.
ConvertImage ==
    /\ pc = "convert"
    /\ LET st == Convert(image, Geometry, args.use_4bit, args.column_layout)
       IN  IF st.oob
               THEN /\ pc' = "undefined"
                    /\ UNCHANGED <<raw_image, stores>>
               ELSE /\ raw_image' = Materialize(st.raw, raw_image_size)
                    /\ stores' = st.n
                    /\ pc' = "write_image"
    /\ UNCHANGED <<in_file, args, err, header, palette, raw_palette,
                   image, header_outs, geometry, raw_geometry, files>>

\* Lines 519-526: fwrite of the raw image, fclose, return 0.
WriteRawImage ==
    /\ pc = "write_image"
    /\ \/ /\ out_file' = out_file \o raw_image
          /\ pc' = "done"
          /\ UNCHANGED <<err, image, raw_image>>
       \/ \E k \in ShortCounts(ToInt(raw_image_size)) :
            /\ out_file' = out_file \o SubSeq(raw_image, 1, k)
            /\ Fail("ImageWriteError")
    /\ UNCHANGED <<in_file, args, header, palette, raw_palette,
                   header_outs, geometry, raw_geometry, stores, palette_file>>

\* exit_handler, registered with atexit: runs when main() returns and when
\* exit_with_msg exits.
exit_handler ==
    /\ pc \in {"done", "error"}
    /\ pc' = "exit"
    /\ image' = NULL
    /\ raw_image' = NULL
    /\ UNCHANGED <<in_file, args, err, header, palette, raw_palette,
                   header_outs, geometry, raw_geometry, stores, files>>

Next ==
    \/ OpenInFile
    \/ ReadHeader
    \/ ValidateHeader
    \/ AllocImage
    \/ ReadPalette
    \/ ReadImage
    \/ CreateRawPalette
    \/ OpenOutFile
    \/ WritePalette
    \/ AllocRawImage
    \/ ConvertImage
    \/ WriteRawImage
    \/ exit_handler

Spec == Init /\ [][Next]_vars

(***************************************************************************)
(* Properties.  The fields and pixels of the source file are read here     *)
(* from in_file itself, not from the program's variables.                  *)
(***************************************************************************)
SrcFileSize == RdU32(in_file, 2)
SrcPixelOffset == RdU32(in_file, 10)
SrcDibSize == RdU32(in_file, 14)
SrcWidth == RdU32(in_file, 18)
SrcHeight == RdS32(in_file, 22)
SrcBpp == RdU16(in_file, 28)
SrcCompression == RdU32(in_file, 30)

\* The exact product a * b of two 32-bit values, when it is below 2^32.
ProductFits(a, b) ==
    /\ a[1] = 0 \/ b[1] = 0
    /\ Add(MulLimb(a[1], b[2]), MulLimb(a[2], b[1]))[1] = 0
    /\ Add(<<Add(MulLimb(a[1], b[2]), MulLimb(a[2], b[1]))[2], 0>>,
           MulLimb(a[2], b[2]))[1] < Limb
ExactProduct(a, b) ==
    Add(<<Add(MulLimb(a[1], b[2]), MulLimb(a[2], b[1]))[2], 0>>,
        MulLimb(a[2], b[2]))

\* Width, height and padded row width of a small picture, as integers.
PicW == ToInt(SrcWidth)
PicH == abs(SrcHeight)
PicPadded == ((PicW + 3) \div 4) * 4

\* The source pixel at display row row, column col.
SrcPixel(row, col) ==
    LET stored == IF SrcHeight > 0 THEN PicH - 1 - row ELSE row
    IN  in_file[ToInt(SrcPixelOffset) + stored * PicPadded + col + 1]

ValidationErrs ==
    {"NotABmpFile", "FileTooSmall", "InvalidHeader", "UnsupportedHeader",
     "InvalidWidth", "InvalidHeight", "InvalidImageSize",
     "UnsupportedBitDepth", "UnsupportedCompression"}
LaterErrs ==
    {"ImageAllocError", "PaletteReadError", "ImageReadError",
     "CantCreateOutput", "PaletteWriteError", "CantCreatePalette",
     "RawAllocError", "ImageWriteError"}
AfterValidation ==
    {"alloc_image", "read_palette", "read_image", "create_palette",
     "open_out", "write_palette", "alloc_raw", "convert", "write_image",
     "done", "undefined"}
AfterPalette ==
    {"open_out", "write_palette", "alloc_raw", "convert", "write_image",
     "done", "undefined"}

\* The header was accepted / rejected with diagnosis e by the run so far.
Accepted == pc \in AfterValidation \/ err \in LaterErrs
Rejected(e) == err = e

(***************************************************************************)
(* C1  Palette conversion: once the raw palette is created, for every      *)
(* entry i below 16 (4-bit) or 256 (8-bit) the bytes at raw offsets 2i and *)
(* 2i+1 are v >> 1 and v & 1, v = (r3<<6)|(g3<<3)|b3, each channel being   *)
(* floor((14*c8 + 255) / 510), in 0..7, of the byte at 4i+2, 4i+1, 4i of   *)
(* the source palette; and an entry RGB888 (255,128,0) gives the RGB332    *)
(* byte 0xF0 and the blue-LSB byte 0.                                      *)
(***************************************************************************)
C1_C3(c8) == (14 * c8 + 255) \div 510

C1_Entries ==
    \A i \in 0..((IF args.use_4bit THEN 16 ELSE 256) - 1) :
        LET b3 == C1_C3(palette[4 * i + 1])
            g3 == C1_C3(palette[4 * i + 2])
            r3 == C1_C3(palette[4 * i + 3])
            v == r3 * 64 + g3 * 8 + b3
        IN  /\ {r3, g3, b3} \subseteq 0..7
            /\ raw_palette[2 * i + 1] = v \div 2
            /\ raw_palette[2 * i + 2] = v % 2
            /\ \A c \in 1..4 :
                    palette[4 * i + c] =
                        in_file[ToInt(SrcDibSize) + 14 + 4 * i + c]

\* Every entry (blue, green, red) = (0, 128, 255) has the raw bytes
\* <<rgb332, 0>>.
C1_Orange(rgb332) ==
    \A i \in 0..((IF args.use_4bit THEN 16 ELSE 256) - 1) :
        (palette[4 * i + 1] = 0 /\ palette[4 * i + 2] = 128
            /\ palette[4 * i + 3] = 255) =>
                (raw_palette[2 * i + 1] = rgb332 /\ raw_palette[2 * i + 2] = 0)

\* C1: every raw palette entry is the rounded RGB333 colour split into the
\* RGB332 byte and the blue-LSB byte; (255,128,0) gives 0xF0 and 0.
C1_PaletteConversion ==
    (pc \in AfterPalette /\ args.palette_option # NONE) =>
        (C1_Entries /\ C1_Orange(240))

\* C1 as stated: RGB888 (255,128,0) gives the RGB332 byte 0xE0.
C1_AsStated ==
    (pc \in AfterPalette /\ args.palette_option # NONE) =>
        (C1_Entries /\ C1_Orange(224))

C1_Witness ==
    /\ pc = "open_out"
    /\ args.palette_option = SEPARATE
    /\ args.use_4bit
    /\ palette[1] = 0 /\ palette[2] = 128 /\ palette[3] = 255
    /\ raw_palette[1] = 240
    /\ raw_palette[2] = 0
    /\ raw_palette[3] = 240

(***************************************************************************)
(* C2  Header validation reports the first failing check in the order      *)
(* signature, file size, pixel offset, DIB header size, width, height,     *)
(* image size, bit depth, compression, and accepts exactly when none       *)
(* fails, with paletteOffset = 14 + dibHeaderSize; a file shorter than 54  *)
(* bytes fails before any of these checks runs.  (For headers whose        *)
(* width * |height| is below 2^32.)                                        *)
(***************************************************************************)
C2_Expected ==
    IF in_file[1] # 66 \/ in_file[2] # 77 THEN "NotABmpFile"
    ELSE IF Lt(SrcFileSize, FromInt(1082)) THEN "FileTooSmall"
    ELSE IF Geq(SrcPixelOffset, SrcFileSize) THEN "InvalidHeader"
    ELSE IF Lt(SrcDibSize, FromInt(40)) THEN "UnsupportedHeader"
    ELSE IF SrcWidth = Zero THEN "InvalidWidth"
    ELSE IF SrcHeight = 0 THEN "InvalidHeight"
    ELSE IF Geq(ExactProduct(SrcWidth, FromInt(abs(SrcHeight))), SrcFileSize)
        THEN "InvalidImageSize"
    ELSE IF SrcBpp # 8 THEN "UnsupportedBitDepth"
    ELSE IF SrcCompression # Zero THEN "UnsupportedCompression"
    ELSE "Success"

\* C2: the outcome of validation is the first failing check in the fixed
\* order, or acceptance, for every header whose product fits in 32 bits.
C2_ValidationOrder ==
    /\ Len(in_file) < 54 =>
        /\ ~Accepted
        /\ pc # "validate"
        /\ err \in {"", "CantOpenInput", "TruncatedHeader"}
    /\ (Len(in_file) >= 54
            /\ ProductFits(SrcWidth, FromInt(abs(SrcHeight)))) =>
        /\ Accepted =>
            /\ C2_Expected = "Success"
            /\ palette_offset = Add(FromInt(14), SrcDibSize)
        /\ err \in ValidationErrs => err = C2_Expected
        /\ (C2_Expected # "Success" /\ pc \in {"error", "exit"}) =>
                err \in {"CantOpenInput", "TruncatedHeader", C2_Expected}

C2_Witness ==
    /\ pc = "error"
    /\ Rejected("UnsupportedCompression")
    /\ SrcWidth = FromInt(65536)
    /\ SrcHeight = -2
    /\ SrcFileSize = UINT32_MAX

(***************************************************************************)
(* C3  8-bit row-major repacking: the raw image has exactly w * H bytes    *)
(* and the byte at offset row * w + col is the source pixel at display     *)
(* row row, column col: stored row H-1-row when the height field is        *)
(* positive, stored row row when it is negative.                           *)
(***************************************************************************)
C3_RowMajor8 ==
    (pc = "write_image" /\ ~args.use_4bit /\ ~args.column_layout) =>
        /\ Len(raw_image) = PicW * PicH
        /\ \A row \in 0..(PicH - 1), col \in 0..(PicW - 1) :
                raw_image[row * PicW + col + 1] = SrcPixel(row, col)

C3_Witness ==
    /\ pc = "write_image" /\ ~args.use_4bit /\ ~args.column_layout
    /\ PicW = 3 /\ SrcHeight = 2
    /\ raw_image[1] = in_file[1078 + 4 + 1]
    /\ raw_image[1] # raw_image[4]

(***************************************************************************)
(* C4  8-bit column-major repacking: the raw image has exactly w * H       *)
(* bytes, the byte at offset row + col * H is the source pixel at display  *)
(* (row, col), and every offset 0 .. w*H-1 is stored to exactly once.      *)
(***************************************************************************)
C4_ColumnMajor8 ==
    (pc = "write_image" /\ ~args.use_4bit /\ args.column_layout) =>
        /\ Len(raw_image) = PicW * PicH
        /\ \A row \in 0..(PicH - 1), col \in 0..(PicW - 1) :
                raw_image[row + col * PicH + 1] = SrcPixel(row, col)
        /\ stores = PicW * PicH
        /\ \A k \in 1..Len(raw_image) : raw_image[k] # Uninit

C4_Witness ==
    /\ pc = "write_image" /\ ~args.use_4bit /\ args.column_layout
    /\ PicW = 4 /\ SrcHeight = -3
    /\ raw_image[2] = in_file[1078 + 4 + 1]
    /\ raw_image[4] = in_file[1078 + 1 + 1]

(***************************************************************************)
(* C5  4-bit repacking: the raw image has exactly ceil(w/2) * H bytes; the *)
(* pixel pair (p0, p1) at columns (2k, 2k+1) of display row r gives the    *)
(* byte ((p0 & 0xF) << 4) | (p1 & 0xF) at offset r * ceil(w/2) + k         *)
(* (row-major) or r + k * H (column-major); for odd w the last byte of     *)
(* each row has the last pixel's low 4 bits in its high nibble.            *)
(***************************************************************************)
C5_RowW == (PicW + (PicW % 2)) \div 2

C5_Offset(r, k) ==
    IF args.column_layout THEN r + k * PicH ELSE r * C5_RowW + k

\* C5: every 4-bit output byte holds the low nibbles of source columns 2k
\* and 2k+1 of its display row, at the offset of the chosen layout.
C5_FourBit ==
    (pc = "write_image" /\ args.use_4bit) =>
        /\ Len(raw_image) = C5_RowW * PicH
        /\ C5_RowW * 2 \in {PicW, PicW + 1}
        /\ \A r \in 0..(PicH - 1) :
            /\ \A k \in 0..(C5_RowW - 1) :
                2 * k + 1 < PicW =>
                    raw_image[C5_Offset(r, k) + 1] =
                        (SrcPixel(r, 2 * k) % 16) * 16
                            + (SrcPixel(r, 2 * k + 1) % 16)
            /\ PicW % 2 = 1 =>
                    raw_image[C5_Offset(r, C5_RowW - 1) + 1] \div 16 =
                        SrcPixel(r, PicW - 1) % 16

C5_Witness ==
    /\ pc = "write_image" /\ args.use_4bit /\ args.column_layout
    /\ PicW = 5 /\ SrcHeight = 2
    /\ raw_image[2 + 1] \div 16 = in_file[1078 + 8 + 2 + 1] % 16
    /\ raw_image[2 + 1] % 16 = in_file[1078 + 8 + 3 + 1] % 16

(***************************************************************************)
(* C6  Output composition on a successful run.  Embedded: the raw image    *)
(* file is the raw palette (32 bytes in 4-bit mode, 512 in 8-bit mode)     *)
(* followed by the raw pixel data.  Separate: the raw image file is the    *)
(* raw pixel data and the palette file is the raw palette.  None: the raw  *)
(* image file is the raw pixel data and no palette file exists.            *)
(***************************************************************************)
C6_PaletteLen == IF args.use_4bit THEN 32 ELSE 512

\* C6: the output files are composed according to the palette placement.
C6_OutputComposition ==
    pc = "done" =>
        CASE args.palette_option = EMBEDDED ->
                /\ out_file = SubSeq(raw_palette, 1, C6_PaletteLen) \o raw_image
                /\ Len(out_file) = C6_PaletteLen + Len(raw_image)
                /\ palette_file = NoFile
          [] args.palette_option = SEPARATE ->
                /\ out_file = raw_image
                /\ palette_file = SubSeq(raw_palette, 1, C6_PaletteLen)
                /\ Len(palette_file) = C6_PaletteLen
          [] OTHER ->
                /\ out_file = raw_image
                /\ palette_file = NoFile

C6_Witness ==
    /\ pc = "done"
    /\ args.palette_option = EMBEDDED
    /\ args.use_4bit
    /\ Len(out_file) = 32 + 3
    /\ out_file[33] = raw_image[1]

(***************************************************************************)
(* C7  No partial output on error: in a run that ends with an error no     *)
(* raw image file and no palette file has been created or partly written.  *)
(***************************************************************************)
C7_NoPartialOutput ==
    pc = "error" => (out_file = NoFile /\ palette_file = NoFile)

(***************************************************************************)
(* C8  Padding bytes never influence the output: the raw pixel data is     *)
(* what the conversion gives for the same image with its row-padding       *)
(* bytes (columns width .. paddedRowWidth-1) cleared.                      *)
(***************************************************************************)
C8_ClearPadding(img) ==
    [k \in 1..Len(img) |->
        IF (k - 1) % PicPadded >= PicW THEN 0 ELSE img[k]]

\* C8: the raw image equals the conversion of the same image with every
\* padding byte cleared.
C8_PaddingIgnored ==
    pc = "write_image" =>
        raw_image =
            Materialize(Convert(C8_ClearPadding(image), Geometry,
                                args.use_4bit, args.column_layout).raw,
                        raw_image_size)

(***************************************************************************)
(* C9  Size invariant before allocation: when the source pixel buffer has  *)
(* been allocated, paddedRowWidth * |height| < fileSize and                *)
(* pixelOffset < fileSize for the declared file size.                      *)
(***************************************************************************)
C9_SizeInvariant ==
    pc = "read_palette" =>
        /\ Lt(image_size, SrcFileSize)
        /\ Lt(image_offset, SrcFileSize)

(***************************************************************************)
(* C10  Buffer-bounds safety under 32-bit arithmetic: for an accepted      *)
(* header, in each repacking mode, every read of the source pixel buffer   *)
(* and every write of the raw image buffer is inside the allocated size.   *)
(***************************************************************************)
C10_BufferBounds == pc # "undefined"

====
